---- MODULE Spec2Model ----
(***************************************************************************)
(* A state-machine model of drivers/scsi/scsi_ioctl.c: the ioctl dispatch  *)
(* layer of a SCSI device (scsi_ioctl, srpmb_scsi_ioctl, the medium        *)
(* removal command, the internal command executor with its sense           *)
(* interpretation, the security-protocol transfer functions and the error  *)
(* recovery gate).                                                         *)
(*                                                                         *)
(* One dispatch runs at a time against the device.  The security-protocol  *)
(* dispatch of scsi_ioctl is split at the points where it reads user       *)
(* memory and where it blocks in scsi_execute_req, so that stores made by   *)
(* another thread of the calling process to the argument struct interleave *)
(* with it.  Every other dispatch is one action.                            *)
(***************************************************************************)
EXTENDS Integers, Sequences, FiniteSets

(* ------------------------------------------------------------------ *)
(* Program constants                                                    *)
(* ------------------------------------------------------------------ *)

\* #define MAX_BUFFLEN (32 * 512)
MAX_BUFFLEN == 32 * 512

\* char scsi_cmd[MAX_COMMAND_SIZE]
MAX_COMMAND_SIZE == 16

\* errno values returned negated by the handlers
ENXIO == 6
EAGAIN == 11
ENOMEM == 12
EACCES == 13
EFAULT == 14
ENODEV == 19
EINVAL == 22

\* driver_byte() flag tested after scsi_execute_req
DRIVER_SENSE == 8

\* sense keys the switch of ioctl_internal_command names, and one it does not
NOT_READY == 2
MEDIUM_ERROR == 3
ILLEGAL_REQUEST == 5
UNIT_ATTENTION == 6

\* SCSI opcodes placed in byte 0 of the command descriptor block
ALLOW_MEDIUM_REMOVAL == 30
START_STOP == 27
SECURITY_PROTOCOL_IN == 162
SECURITY_PROTOCOL_OUT == 181

\* state byte of the medium removal command
SCSI_REMOVAL_ALLOW == 0
SCSI_REMOVAL_PREVENT == 1

\* security protocol id and protocol specific field
SECU_PROT_UFS == 236
SECU_PROT_SPEC_CERT_DATA == 1

(* ------------------------------------------------------------------ *)
(* Bounds of the model                                                  *)
(* ------------------------------------------------------------------ *)

\* stores another thread makes to the argument struct during one dispatch
MaxRaces == 1

\* lengths a caller declares: zero, a length whose big-endian bytes differ,
\* the largest accepted one, the smallest rejected one
LenValues == {0, 513, MAX_BUFFLEN, MAX_BUFFLEN + 1}

\* host driver names (sht->name), as character sequences
HostNames ==
    { <<"u", "f", "s", "h", "c", "d">>,
      <<"u", "f", "s", "h", "c", "d", "-", "x">>,
      <<"u", "f", "s", "h", "c">> }

\* the prefix the reset carve-out compares against
ProtectedName == <<"u", "f", "s", "h", "c", "d">>

\* results of scsi_execute_req other than success (0): CHECK CONDITION with
\* the driver sense flag, the driver sense flag alone, a host error
CheckCondition == DRIVER_SENSE * (2 ^ 24) + 2

SenseOnly == DRIVER_SENSE * (2 ^ 24)

HostError == 7 * (2 ^ 16)

SenseKeys == {NOT_READY, MEDIUM_ERROR, ILLEGAL_REQUEST, UNIT_ATTENTION}

\* what scsi_execute_req hands back: the result and the sense header
ExecOutcomes ==
    { [result |-> 0, valid |-> FALSE, sense_key |-> NOT_READY],
      [result |-> CheckCondition, valid |-> FALSE, sense_key |-> UNIT_ATTENTION],
      [result |-> HostError, valid |-> TRUE, sense_key |-> UNIT_ATTENTION],
      [result |-> SenseOnly, valid |-> TRUE, sense_key |-> UNIT_ATTENTION],
      [result |-> SenseOnly, valid |-> TRUE, sense_key |-> NOT_READY] } \cup
    { [result |-> CheckCondition, valid |-> TRUE, sense_key |-> k] : k \in SenseKeys }

(* ------------------------------------------------------------------ *)
(* Pure helpers                                                         *)
(* ------------------------------------------------------------------ *)

\* driver_byte(result): bits 24..31 of the result
driver_byte(result) == (result \div (2 ^ 24)) % 256

\* (driver_byte(result) & DRIVER_SENSE) && scsi_sense_valid(&sshdr)
SenseReported(ex) ==
    /\ (driver_byte(ex.result) \div DRIVER_SENSE) % 2 = 1
    /\ ex.valid

\* ((unsigned char)(x >> shift)) & 0xff
ByteOf(x, shift) == (x \div (2 ^ shift)) % 256

\* the character of a C string at a 1-based position; "" is the terminator
CharAt(s, i) == IF i <= Len(s) THEN s[i] ELSE ""

RECURSIVE StrNCmpFrom(_, _, _, _)
StrNCmpFrom(s1, s2, n, i) ==
    IF i > n THEN 0
    ELSE IF CharAt(s1, i) # CharAt(s2, i) THEN 1
    ELSE IF CharAt(s1, i) = "" THEN 0
    ELSE StrNCmpFrom(s1, s2, n, i + 1)

\* strcmp: the comparison does not stop after n characters
StrCmpWhole(s1, s2, n) == StrNCmpFrom(s1, s2, Len(s1) + Len(s2) + 1, 1)

\* strncmp(s1, s2, n): 0 when the first n characters agree
strncmp(s1, s2, n) == StrNCmpFrom(s1, s2, n, 1)

\* the carve-out test of SG_SCSI_RESET
IsProtectedHost(name) == strncmp(name, ProtectedName, 6) = 0

\* the 12 command bytes scsi_ioctl writes into the zeroed scsi_cmd
SecuProtCdb(opcode, t_len) ==
    << opcode, SECU_PROT_UFS,
       ByteOf(SECU_PROT_SPEC_CERT_DATA, 8), ByteOf(SECU_PROT_SPEC_CERT_DATA, 0),
       0, 0,
       ByteOf(t_len, 24), ByteOf(t_len, 16), ByteOf(t_len, 8), ByteOf(t_len, 0),
       0, 0, 0, 0, 0, 0 >>

\* bufflen <= 0 || bufflen > MAX_BUFFLEN, on an unsigned int
InvalidBufflen(bufflen) == bufflen <= 0 \/ bufflen > MAX_BUFFLEN

(* ------------------------------------------------------------------ *)
(* Command executor and sense interpreter                               *)
(* ------------------------------------------------------------------ *)

\* scsi_cmd of scsi_set_medium_removal
MediumRemovalCdb(state) ==
    << ALLOW_MEDIUM_REMOVAL, 0, 0, 0, state, 0, 0, 0, 0, 0, 0, 0, 0, 0, 0, 0 >>

\* scsi_cmd of SCSI_IOCTL_START_UNIT (start = 1) and SCSI_IOCTL_STOP_UNIT (0)
StartStopCdb(start) ==
    << START_STOP, 0, 0, 0, start, 0, 0, 0, 0, 0, 0, 0, 0, 0, 0, 0 >>

\* NOT READY falls into the UNIT ATTENTION case also for removable media
InternalCommandNotReadyFalls(sd, opcode, ex) ==
    IF ~SenseReported(ex) THEN [sdev |-> sd, result |-> ex.result]
    ELSE IF ex.sense_key = ILLEGAL_REQUEST THEN
        [sdev |-> IF opcode = ALLOW_MEDIUM_REMOVAL
                  THEN [sd EXCEPT !.lockable = FALSE] ELSE sd,
         result |-> ex.result]
    ELSE IF ex.sense_key \in {NOT_READY, UNIT_ATTENTION} /\ sd.removable THEN
        [sdev |-> [sd EXCEPT !.changed = TRUE], result |-> 0]
    ELSE [sdev |-> sd, result |-> ex.result]

\* UNIT ATTENTION marks the medium changed but keeps the error result
InternalCommandKeepsResult(sd, opcode, ex) ==
    IF ~SenseReported(ex) THEN [sdev |-> sd, result |-> ex.result]
    ELSE IF ex.sense_key = ILLEGAL_REQUEST THEN
        [sdev |-> IF opcode = ALLOW_MEDIUM_REMOVAL
                  THEN [sd EXCEPT !.lockable = FALSE] ELSE sd,
         result |-> ex.result]
    ELSE IF ex.sense_key = NOT_READY /\ sd.removable THEN
        [sdev |-> sd, result |-> ex.result]
    ELSE IF ex.sense_key \in {NOT_READY, UNIT_ATTENTION} /\ sd.removable THEN
        [sdev |-> [sd EXCEPT !.changed = TRUE], result |-> ex.result]
    ELSE [sdev |-> sd, result |-> ex.result]

\* ioctl_internal_command after scsi_execute_req returned ex: the device
\* record and the result it returns
ioctl_internal_command(sd, opcode, ex) ==
    IF ~SenseReported(ex) THEN [sdev |-> sd, result |-> ex.result]
    ELSE IF ex.sense_key = ILLEGAL_REQUEST THEN
        [sdev |-> IF opcode = ALLOW_MEDIUM_REMOVAL
                  THEN [sd EXCEPT !.lockable = FALSE] ELSE sd,
         result |-> ex.result]
    ELSE IF ex.sense_key = NOT_READY /\ sd.removable THEN
        [sdev |-> sd, result |-> ex.result]
    ELSE IF ex.sense_key \in {NOT_READY, UNIT_ATTENTION} /\ sd.removable THEN
        [sdev |-> [sd EXCEPT !.changed = TRUE], result |-> 0]
    ELSE [sdev |-> sd, result |-> ex.result]

\* locked is written whatever the command returned
MediumRemovalAlwaysSets(sd, state, ex) ==
    IF ~sd.removable \/ ~sd.lockable
    THEN [sdev |-> sd, ret |-> 0, issued |-> FALSE]
    ELSE LET r == ioctl_internal_command(sd, ALLOW_MEDIUM_REMOVAL, ex)
         IN  [sdev |-> [r.sdev EXCEPT !.locked = (state = SCSI_REMOVAL_PREVENT)],
              ret |-> r.result, issued |-> TRUE]

\* the command is issued without looking at removable and lockable
MediumRemovalUnguarded(sd, state, ex) ==
    LET r == ioctl_internal_command(sd, ALLOW_MEDIUM_REMOVAL, ex)
    IN  [sdev |-> IF r.result = 0
                  THEN [r.sdev EXCEPT !.locked = (state = SCSI_REMOVAL_PREVENT)]
                  ELSE r.sdev,
         ret |-> r.result, issued |-> TRUE]

\* scsi_set_medium_removal: the device record, the return value and whether
\* a command went to scsi_execute_req (whose outcome is ex)
scsi_set_medium_removal(sd, state, ex) ==
    IF ~sd.removable \/ ~sd.lockable
    THEN [sdev |-> sd, ret |-> 0, issued |-> FALSE]
    ELSE LET r == ioctl_internal_command(sd, ALLOW_MEDIUM_REMOVAL, ex)
         IN  [sdev |-> IF r.result = 0
                       THEN [r.sdev EXCEPT !.locked = (state = SCSI_REMOVAL_PREVENT)]
                       ELSE r.sdev,
              ret |-> r.result, issued |-> TRUE]

(* ------------------------------------------------------------------ *)
(* State                                                                *)
(* ------------------------------------------------------------------ *)

VARIABLES
    sdev,   \* struct scsi_device flags: removable, lockable, locked, changed
    host,   \* sdev->host: hostt->name, wlun_clr_uac, hostt->ioctl present
    eh,     \* error recovery: host in recovery, device online
    umem,   \* the Scsi_Ioctl_Command header in user memory: inlen, outlen
    pc,     \* position of the dispatch: idle, secu_marshal, secu_exec, done, oops
    call,   \* locals of the security-protocol dispatch in flight
    obs,    \* what the current (or last) dispatch did and returned
    races   \* stores by another thread during the dispatch in flight

vars == << sdev, host, eh, umem, pc, call, obs, races >>

NoFrees == [a \in {"s_ioc_arg", "buf"} |-> 0]

\* memset(scsi_cmd, 0x0, MAX_COMMAND_SIZE)
NoCdb == [i \in 1..MAX_COMMAND_SIZE |-> 0]

\* the record of a dispatch that has done nothing yet
NewObs(fn, cmd, sd) ==
    [ fn |-> fn, cmd |-> cmd, ret |-> 0, pre |-> sd,
      exec |-> 0, raw |-> 0, valid |-> FALSE, sense_key |-> NOT_READY,
      internal |-> FALSE, execLen |-> 0, cdb |-> NoCdb,
      handler |-> 0, reset |-> 0,
      allocs |-> 0, held |-> {}, frees |-> NoFrees,
      copied_in |-> 0, copied_out |-> 0,
      bufflen |-> 0, cause |-> "none" ]

NoCall ==
    [ cmd |-> "none", scsi_cmd |-> NoCdb,
      s_ioc_arg |-> [inlen |-> 0, outlen |-> 0], buf |-> "unset", bufflen |-> 0 ]

\* no argument struct is in use: the struct belongs to the dispatch it is passed to
NoArg == [inlen |-> 0, outlen |-> 0]

\* the caller is between two dispatches
Idle == pc = "idle"

Init ==
    /\ sdev \in { [removable |-> r, lockable |-> r, locked |-> FALSE, changed |-> FALSE] :
                    r \in BOOLEAN }
    /\ host \in { h \in [name : HostNames, wlun_clr_uac : BOOLEAN, ioctl : BOOLEAN] :
                    h.wlun_clr_uac => h.ioctl }
    /\ eh = [in_recovery |-> FALSE, online |-> TRUE]
    /\ umem = NoArg
    /\ pc = "idle"
    /\ call = NoCall
    /\ obs = NewObs("none", "none", sdev)
    /\ races = 0

\* a dispatch returns: the record of the call is complete
Return(o) ==
    /\ obs' = o
    /\ pc' = "done"
    /\ call' = NoCall
    /\ races' = 0

\* the caller has taken the return value and may dispatch again
Resume ==
    /\ pc = "done"
    /\ pc' = "idle"
    /\ obs' = NewObs("none", "none", sdev)
    /\ UNCHANGED << sdev, host, eh, umem, call, races >>

\* the record of an internal command that went through scsi_execute_req
Executed(o, cdb, ex) ==
    [o EXCEPT !.exec = @ + 1, !.raw = ex.result, !.valid = ex.valid,
              !.sense_key = ex.sense_key, !.cdb = cdb, !.internal = TRUE]

(* ------------------------------------------------------------------ *)
(* scsi_ioctl: the dispatches that are one step                         *)
(* ------------------------------------------------------------------ *)

\* case SCSI_IOCTL_DOORLOCK / SCSI_IOCTL_DOORUNLOCK
Ioctl_DOOR(cmd, state) ==
    /\ Idle
    /\ \E ex \in ExecOutcomes :
         LET r == scsi_set_medium_removal(sdev, state, ex)
             o == NewObs("scsi_ioctl", cmd, sdev)
         IN  /\ sdev' = r.sdev
             /\ Return([ (IF r.issued THEN Executed(o, MediumRemovalCdb(state), ex) ELSE o)
                         EXCEPT !.ret = r.ret ])
    /\ UNCHANGED << host, eh, umem >>

Ioctl_DOORLOCK == Ioctl_DOOR("SCSI_IOCTL_DOORLOCK", SCSI_REMOVAL_PREVENT)

Ioctl_DOORUNLOCK == Ioctl_DOOR("SCSI_IOCTL_DOORUNLOCK", SCSI_REMOVAL_ALLOW)

\* case SCSI_IOCTL_START_UNIT / SCSI_IOCTL_STOP_UNIT
Ioctl_STARTSTOP(cmd, start) ==
    /\ Idle
    /\ \E ex \in ExecOutcomes :
         LET r == ioctl_internal_command(sdev, START_STOP, ex)
             o == NewObs("scsi_ioctl", cmd, sdev)
         IN  /\ sdev' = r.sdev
             /\ Return([Executed(o, StartStopCdb(start), ex) EXCEPT !.ret = r.result])
    /\ UNCHANGED << host, eh, umem >>

Ioctl_START_UNIT == Ioctl_STARTSTOP("SCSI_IOCTL_START_UNIT", 1)

Ioctl_STOP_UNIT == Ioctl_STARTSTOP("SCSI_IOCTL_STOP_UNIT", 0)

\* case SG_SCSI_RESET: rejected for the protected host driver, else
\* scsi_ioctl_reset, whose return value is not decided here
Ioctl_SG_SCSI_RESET ==
    /\ Idle
    /\ LET o == NewObs("scsi_ioctl", "SG_SCSI_RESET", sdev)
       IN  IF IsProtectedHost(host.name)
           THEN Return([o EXCEPT !.ret = -EINVAL])
           ELSE \E r \in {0, -EACCES, -EFAULT, -EINVAL} :
                  Return([o EXCEPT !.reset = 1, !.ret = r])
    /\ UNCHANGED << sdev, host, eh, umem >>

\* case SCSI_IOCTL_GET_IDLUN and SCSI_IOCTL_GET_BUS_NUMBER: a checked store
\* to user memory and nothing else
Ioctl_GET_INFO ==
    /\ Idle
    /\ \E cmd \in {"SCSI_IOCTL_GET_IDLUN", "SCSI_IOCTL_GET_BUS_NUMBER"}, ok \in BOOLEAN :
         LET o == NewObs("scsi_ioctl", cmd, sdev)
         IN  Return(IF ok THEN o ELSE [o EXCEPT !.ret = -EFAULT, !.cause = "copy_fail"])
    /\ UNCHANGED << sdev, host, eh, umem >>

\* case SCSI_IOCTL_PROBE_HOST: ioctl_probe returns 1 unless a user copy fails
Ioctl_PROBE_HOST ==
    /\ Idle
    /\ \E ok \in BOOLEAN :
         LET o == NewObs("scsi_ioctl", "SCSI_IOCTL_PROBE_HOST", sdev)
         IN  Return(IF ok THEN [o EXCEPT !.ret = 1]
                          ELSE [o EXCEPT !.ret = -EFAULT, !.cause = "copy_fail"])
    /\ UNCHANGED << sdev, host, eh, umem >>

\* case SCSI_IOCTL_SEND_COMMAND: -EACCES without both capabilities, else
\* sg_scsi_ioctl, whose return value is not decided here
Ioctl_SEND_COMMAND ==
    /\ Idle
    /\ \E capable \in BOOLEAN, r \in {0, -EFAULT, -EINVAL} :
         LET o == NewObs("scsi_ioctl", "SCSI_IOCTL_SEND_COMMAND", sdev)
         IN  Return(IF capable THEN [o EXCEPT !.ret = r]
                               ELSE [o EXCEPT !.ret = -EACCES, !.cause = "perm"])
    /\ UNCHANGED << sdev, host, eh, umem >>

\* case SCSI_IOCTL_TEST_UNIT_READY: scsi_test_unit_ready, which sends the
\* command itself; it may mark the medium changed, and its return value is
\* not decided here
Ioctl_TEST_UNIT_READY ==
    /\ Idle
    /\ \E ex \in ExecOutcomes, chg \in {sdev.changed, TRUE} :
         LET o == NewObs("scsi_ioctl", "SCSI_IOCTL_TEST_UNIT_READY", sdev)
         IN  /\ sdev' = [sdev EXCEPT !.changed = chg]
             /\ Return([o EXCEPT !.exec = 1, !.raw = ex.result, !.valid = ex.valid,
                                 !.sense_key = ex.sense_key, !.ret = ex.result])
    /\ UNCHANGED << host, eh, umem >>

\* case SCSI_IOCTL_GET_PCI: scsi_ioctl_get_pci
Ioctl_GET_PCI ==
    /\ Idle
    /\ \E dev \in BOOLEAN, ok \in BOOLEAN :
         LET o == NewObs("scsi_ioctl", "SCSI_IOCTL_GET_PCI", sdev)
         IN  Return(IF ~dev THEN [o EXCEPT !.ret = -ENXIO, !.cause = "nodev"]
                    ELSE IF ok THEN o
                    ELSE [o EXCEPT !.ret = -EFAULT, !.cause = "copy_fail"])
    /\ UNCHANGED << sdev, host, eh, umem >>

\* default: the host's own ioctl handler when there is one, else -EINVAL
Ioctl_default ==
    /\ Idle
    /\ LET o == NewObs("scsi_ioctl", "other", sdev)
       IN  IF host.ioctl
           THEN \E r \in {0, -EINVAL} : Return([o EXCEPT !.handler = 1, !.ret = r])
           ELSE Return([o EXCEPT !.ret = -EINVAL])
    /\ UNCHANGED << sdev, host, eh, umem >>

(* ------------------------------------------------------------------ *)
(* Security-protocol transfer through scsi_ioctl                        *)
(* ------------------------------------------------------------------ *)

IsIn(cmd) == cmd = "SCSI_IOCTL_SECURITY_PROTOCOL_IN"

IsOut(cmd) == cmd = "SCSI_IOCTL_SECURITY_PROTOCOL_OUT"

\* scsi_cmd[0] = (cmd == SCSI_IOCTL_SECURITY_PROTOCOL_IN) ? ... : ...
SecuProtOpcode(cmd) == IF IsIn(cmd) THEN SECURITY_PROTOCOL_IN ELSE SECURITY_PROTOCOL_OUT

\* a successful kmalloc/kzalloc: one more allocation, now held
KAlloc(o, a) == [o EXCEPT !.allocs = @ + 1, !.held = @ \cup {a}]

\* kfree(p) of the allocation named a; kfree(NULL) does nothing
KFree(o, a, nonNull) ==
    IF nonNull THEN [o EXCEPT !.held = @ \ {a}, !.frees[a] = @ + 1] ELSE o

\* result = -EFAULT on every failure branch of ioctl_secu_prot_command
FailWithEFAULT(o, cause) == [o EXCEPT !.ret = -EFAULT, !.cause = cause]

\* case SCSI_IOCTL_SECURITY_PROTOCOL_IN / _OUT of scsi_ioctl, up to the call
\* of ioctl_secu_prot_command: the host handler is asked to clear the unit
\* attention, the length is read through the user pointer and the command
\* descriptor block is built.  The caller's struct holds any lengths; a
\* pointer that is not mapped makes the plain read fault.
Ioctl_SECURITY_PROTOCOL ==
    /\ Idle
    /\ \E cmd \in {"SCSI_IOCTL_SECURITY_PROTOCOL_IN", "SCSI_IOCTL_SECURITY_PROTOCOL_OUT"},
          ic \in [inlen : LenValues, outlen : LenValues], mapped \in BOOLEAN :
         LET o == [NewObs("scsi_ioctl", cmd, sdev)
                     EXCEPT !.handler = IF host.wlun_clr_uac THEN 1 ELSE 0]
             t_len == IF IsIn(cmd) THEN ic.inlen ELSE ic.outlen
         IN  IF mapped
             THEN /\ umem' = ic
                  /\ pc' = "secu_marshal"
                  /\ call' = [NoCall EXCEPT !.cmd = cmd,
                                !.scsi_cmd = SecuProtCdb(SecuProtOpcode(cmd), t_len)]
                  /\ obs' = o
             ELSE /\ umem' = NoArg
                  /\ pc' = "oops"
                  /\ call' = NoCall
                  /\ obs' = [o EXCEPT !.cause = "fault"]
    /\ races' = 0
    /\ UNCHANGED << sdev, host, eh >>

\* ioctl_secu_prot_command from its entry to the call of scsi_execute_req:
\* [pc, call, obs] after it.  nullOops: a transfer through the NULL data
\* buffer kills the task (else the fault is reported as a failed copy).
SecuProtMarshal(o, c, um, hdrAlloc, hdrCopy, bufAlloc, dataCopy, nullOops) ==
    LET Fin(oo) == [pc |-> "done", call |-> NoCall, obs |-> oo]
    IN
    IF ~hdrAlloc THEN Fin(FailWithEFAULT(o, "alloc_fail"))
    ELSE
    LET o1 == KAlloc(o, "s_ioc_arg") IN
    IF ~hdrCopy THEN Fin(KFree(FailWithEFAULT(o1, "copy_fail"), "s_ioc_arg", TRUE))
    ELSE IF ~IsIn(c.cmd) /\ ~IsOut(c.cmd)
    THEN Fin(KFree(FailWithEFAULT(o1, "bad_dir"), "s_ioc_arg", TRUE))
    ELSE
    LET bufflen == IF IsIn(c.cmd) THEN um.inlen ELSE um.outlen
        o2 == [o1 EXCEPT !.bufflen = bufflen]
    IN
    IF InvalidBufflen(bufflen)
    THEN Fin(KFree(FailWithEFAULT(o2, "bad_len"), "s_ioc_arg", TRUE))
    ELSE
    LET o3 == IF bufAlloc THEN KAlloc(o2, "buf") ELSE o2
        c3 == [c EXCEPT !.s_ioc_arg = um, !.bufflen = bufflen,
                        !.buf = IF bufAlloc THEN "alloc" ELSE "null"]
        Unwind(oo) == Fin(KFree(KFree(FailWithEFAULT(oo, "copy_fail"), "buf", bufAlloc),
                                "s_ioc_arg", TRUE))
    IN
    IF IsIn(c.cmd) THEN [pc |-> "secu_exec", call |-> c3, obs |-> o3]
    ELSE IF ~bufAlloc
    THEN (IF nullOops
          THEN [pc |-> "oops", call |-> c3, obs |-> [o3 EXCEPT !.cause = "null_buf"]]
          ELSE Unwind(o3))
    ELSE IF ~dataCopy THEN Unwind(o3)
    ELSE [pc |-> "secu_exec", call |-> c3,
          obs |-> [o3 EXCEPT !.copied_in = um.outlen]]

Step_secu_marshal ==
    /\ pc = "secu_marshal"
    /\ \E hdrAlloc \in BOOLEAN, hdrCopy \in BOOLEAN, bufAlloc \in BOOLEAN,
          dataCopy \in BOOLEAN, nullOops \in BOOLEAN :
         LET r == SecuProtMarshal(obs, call, umem, hdrAlloc, hdrCopy, bufAlloc,
                                  dataCopy, nullOops)
         IN  /\ pc' = r.pc
             /\ call' = r.call
             /\ obs' = r.obs
    /\ races' = IF pc' = "secu_exec" THEN races ELSE 0
    /\ umem' = IF pc' = "secu_exec" THEN umem ELSE NoArg
    /\ UNCHANGED << sdev, host, eh >>

\* ioctl_secu_prot_command from scsi_execute_req to its return
SecuProtExecute(o, c, ex, outCopy, nullOops) ==
    LET o1 == [o EXCEPT !.exec = @ + 1, !.raw = ex.result, !.valid = ex.valid,
                        !.sense_key = ex.sense_key, !.cdb = c.scsi_cmd,
                        !.execLen = c.bufflen]
        Release(oo) == KFree(KFree(oo, "buf", c.buf = "alloc"), "s_ioc_arg", TRUE)
        Fin(oo) == [pc |-> "done", call |-> NoCall, obs |-> oo]
    IN
    IF ~IsIn(c.cmd) THEN Fin(Release([o1 EXCEPT !.ret = ex.result]))
    ELSE IF c.buf = "null"
    THEN (IF nullOops
          THEN [pc |-> "oops", call |-> c, obs |-> [o1 EXCEPT !.cause = "null_buf"]]
          ELSE Fin(Release(FailWithEFAULT(o1, "copy_fail"))))
    ELSE IF ~outCopy THEN Fin(Release(FailWithEFAULT(o1, "copy_fail")))
    ELSE Fin(Release([o1 EXCEPT !.ret = ex.result, !.copied_out = c.s_ioc_arg.inlen]))

Step_secu_exec ==
    /\ pc = "secu_exec"
    /\ \E ex \in ExecOutcomes, outCopy \in BOOLEAN, nullOops \in BOOLEAN :
         LET r == SecuProtExecute(obs, call, ex, outCopy, nullOops)
         IN  /\ pc' = r.pc
             /\ call' = r.call
             /\ obs' = r.obs
    /\ races' = 0
    /\ umem' = NoArg
    /\ UNCHANGED << sdev, host, eh >>

\* another thread of the caller stores to a length field of the argument
\* struct while the dispatch is running
UserStore ==
    /\ pc \in {"secu_marshal", "secu_exec"}
    /\ races < MaxRaces
    /\ \E ic \in [inlen : LenValues, outlen : LenValues] :
         /\ ic # umem
         /\ (ic.inlen = umem.inlen \/ ic.outlen = umem.outlen)
         /\ umem' = ic
    /\ races' = races + 1
    /\ UNCHANGED << sdev, host, eh, pc, call, obs >>

(* ------------------------------------------------------------------ *)
(* Error recovery gate                                                  *)
(* ------------------------------------------------------------------ *)

\* scsi_host_in_recovery(sdev->host)
scsi_host_in_recovery(e) == e.in_recovery

\* scsi_block_when_processing_errors(sdev): it has waited for recovery to
\* end, and returns whether the device is online
scsi_block_when_processing_errors(e) == e.online

\* running, in recovery, taken offline after a failed recovery
EhStates ==
    { [in_recovery |-> FALSE, online |-> TRUE],
      [in_recovery |-> TRUE, online |-> TRUE],
      [in_recovery |-> FALSE, online |-> FALSE] }

\* the error handler starts or ends recovery, or takes the device offline
ErrorRecovery ==
    /\ Idle
    /\ \E e \in EhStates :
         /\ e # eh
         /\ eh' = e
    /\ UNCHANGED << sdev, host, umem, pc, call, obs, races >>

\* scsi_ioctl_block_when_processing_errors(sdev, cmd, ndelay)
Gate ==
    /\ Idle
    /\ \E cmd \in {"SG_SCSI_RESET", "other"}, ndelay \in BOOLEAN :
         LET o == NewObs("scsi_ioctl_block_when_processing_errors", cmd, sdev)
         IN  IF cmd = "SG_SCSI_RESET" /\ ndelay
             THEN Return([o EXCEPT !.ret = IF scsi_host_in_recovery(eh)
                                            THEN -EAGAIN ELSE 0])
             ELSE /\ ~scsi_host_in_recovery(eh)
                  /\ Return([o EXCEPT !.ret = IF scsi_block_when_processing_errors(eh)
                                                 THEN 0 ELSE -ENODEV])
    /\ UNCHANGED << sdev, host, eh, umem >>

(* ------------------------------------------------------------------ *)
(* Security-protocol transfer through srpmb_scsi_ioctl                  *)
(* ------------------------------------------------------------------ *)

\* srpmb_ioctl_secu_prot_command on the kernel request req: the record of
\* the call when it returns
srpmb_ioctl_secu_prot_command(o, req, cdb, bufAlloc, ex) ==
    IF ~IsIn(req.cmd) /\ ~IsOut(req.cmd) THEN FailWithEFAULT(o, "bad_dir")
    ELSE
    LET bufflen == IF IsIn(req.cmd) THEN req.inlen ELSE req.outlen
        o1 == [o EXCEPT !.bufflen = bufflen]
    IN
    IF InvalidBufflen(bufflen) THEN FailWithEFAULT(o1, "bad_len")
    ELSE IF ~bufAlloc THEN [o1 EXCEPT !.ret = -ENOMEM, !.cause = "alloc_fail"]
    ELSE
    LET o2 == KAlloc(o1, "buf")
        o3 == IF IsOut(req.cmd) THEN [o2 EXCEPT !.copied_in = bufflen] ELSE o2
        o4 == [o3 EXCEPT !.exec = @ + 1, !.raw = ex.result, !.valid = ex.valid,
                         !.sense_key = ex.sense_key, !.cdb = cdb, !.execLen = bufflen]
        o5 == IF IsIn(req.cmd) THEN [o4 EXCEPT !.copied_out = bufflen] ELSE o4
    IN  KFree([o5 EXCEPT !.ret = ex.result], "buf", TRUE)

\* srpmb_scsi_ioctl(sdev, req)
Srpmb_scsi_ioctl ==
    /\ Idle
    /\ ~scsi_host_in_recovery(eh)
    /\ \E req \in [cmd : {"SCSI_IOCTL_SECURITY_PROTOCOL_IN",
                          "SCSI_IOCTL_SECURITY_PROTOCOL_OUT", "other"},
                   inlen : LenValues, outlen : LenValues],
          bufAlloc \in BOOLEAN, ex \in ExecOutcomes :
         LET o == NewObs("srpmb_scsi_ioctl", req.cmd, sdev)
             oh == [o EXCEPT !.handler = IF host.wlun_clr_uac THEN 1 ELSE 0]
             t_len == IF IsIn(req.cmd) THEN req.inlen ELSE req.outlen
             cdb == SecuProtCdb(SecuProtOpcode(req.cmd), t_len)
         IN  IF ~scsi_block_when_processing_errors(eh)
             THEN Return([o EXCEPT !.ret = -ENODEV, !.cause = "offline"])
             ELSE Return(srpmb_ioctl_secu_prot_command(oh, req, cdb, bufAlloc, ex))
    /\ UNCHANGED << sdev, host, eh, umem >>

(* ------------------------------------------------------------------ *)
(* Specification                                                        *)
(* ------------------------------------------------------------------ *)

Next ==
    \/ Ioctl_DOORLOCK
    \/ Ioctl_DOORUNLOCK
    \/ Ioctl_START_UNIT
    \/ Ioctl_STOP_UNIT
    \/ Ioctl_SG_SCSI_RESET
    \/ Ioctl_GET_INFO
    \/ Ioctl_PROBE_HOST
    \/ Ioctl_SEND_COMMAND
    \/ Ioctl_TEST_UNIT_READY
    \/ Ioctl_GET_PCI
    \/ Ioctl_default
    \/ Ioctl_SECURITY_PROTOCOL
    \/ Step_secu_marshal
    \/ Step_secu_exec
    \/ UserStore
    \/ Srpmb_scsi_ioctl
    \/ Gate
    \/ ErrorRecovery
    \/ Resume

Spec == Init /\ [][Next]_vars

(* ------------------------------------------------------------------ *)
(* Properties                                                           *)
(* ------------------------------------------------------------------ *)

\* a dispatch has returned
Returned == pc = "done"

\* the returned dispatch was a security-protocol transfer
SecuProtCall ==
    /\ obs.fn \in {"scsi_ioctl", "srpmb_scsi_ioctl"}
    /\ IsIn(obs.cmd) \/ IsOut(obs.cmd)

DoorCall ==
    /\ obs.fn = "scsi_ioctl"
    /\ obs.cmd \in {"SCSI_IOCTL_DOORLOCK", "SCSI_IOCTL_DOORUNLOCK"}

\* the returned dispatch ran ioctl_internal_command and the execution
\* primitive reported valid sense data with the given key
SenseCase(key) ==
    /\ Returned
    /\ obs.internal
    /\ SenseReported([result |-> obs.raw, valid |-> obs.valid])
    /\ obs.sense_key = key

\* the big-endian 32-bit transfer length in bytes 6..9 of a command block
CdbTransferLength(cdb) ==
    cdb[7] * (2 ^ 24) + cdb[8] * (2 ^ 16) + cdb[9] * (2 ^ 8) + cdb[10]

C2_LockedFollowsResult ==
    (Returned /\ DoorCall /\ obs.pre.removable /\ obs.pre.lockable) =>
        /\ (obs.ret = 0 => sdev.locked = (obs.cmd = "SCSI_IOCTL_DOORLOCK"))
        /\ (obs.ret # 0 => sdev.locked = obs.pre.locked)

\* a door unlock fails on a locked device, and the device stays locked
C2_Witness ==
    /\ Returned /\ DoorCall /\ obs.pre.removable /\ obs.pre.lockable
    /\ obs.cmd = "SCSI_IOCTL_DOORUNLOCK"
    /\ obs.pre.locked /\ obs.ret # 0 /\ sdev.locked

\* C3: locked goes from false to true only in a door-lock dispatch whose
\* command got the raw result 0 from the execution primitive.
C3_LockedOnlyAfterRawSuccess ==
    (Returned /\ ~obs.pre.locked /\ sdev.locked) =>
        /\ obs.cmd = "SCSI_IOCTL_DOORLOCK"
        /\ obs.exec = 1
        /\ obs.raw = 0

C5_UnitAttention ==
    SenseCase(UNIT_ATTENTION) =>
        IF obs.pre.removable
        THEN sdev.changed /\ obs.ret = 0
        ELSE sdev.changed = obs.pre.changed /\ obs.ret = obs.raw

\* UNIT ATTENTION on a removable device not yet marked changed
C5_Witness ==
    /\ SenseCase(UNIT_ATTENTION)
    /\ obs.pre.removable /\ ~obs.pre.changed
    /\ obs.raw = SenseOnly
    /\ obs.ret = 0 /\ sdev.changed

\* C6: when a security-protocol transfer is over, every allocation made in
\* it has been released exactly once and none is still held.
C6_ReleasedExactlyOnce ==
    (pc \in {"done", "oops"} /\ SecuProtCall) =>
        /\ obs.held = {}
        /\ \A a \in DOMAIN obs.frees : obs.frees[a] <= 1
        /\ obs.frees["s_ioc_arg"] + obs.frees["buf"] = obs.allocs

\* C7: a scsi_ioctl dispatch that ends with a failed user copy, a bad
\* length or a bad direction has invoked neither scsi_execute_req nor the
\* host's ioctl handler, and has left the device flags alone.
C7_ErrorsBeforeDeviceAccess ==
    (Returned /\ obs.fn = "scsi_ioctl"
              /\ obs.cause \in {"copy_fail", "bad_len", "bad_dir"}) =>
        /\ obs.exec = 0
        /\ obs.handler = 0
        /\ sdev = obs.pre

\* C8: a door lock or unlock on a device that is not removable or not
\* lockable returns 0 without a command to scsi_execute_req and leaves
\* locked, lockable and changed alone.
C8_NotLockableIsNoOp ==
    (Returned /\ DoorCall /\ (~obs.pre.removable \/ ~obs.pre.lockable)) =>
        /\ obs.ret = 0
        /\ obs.exec = 0
        /\ sdev = obs.pre

\* a removable device that stopped being lockable
C8_Witness ==
    /\ Returned /\ DoorCall
    /\ obs.pre.removable /\ ~obs.pre.lockable
    /\ obs.ret = 0

\* the driver name begins with the protected name
HasProtectedPrefix(name) ==
    /\ Len(name) >= Len(ProtectedName)
    /\ SubSeq(name, 1, Len(ProtectedName)) = ProtectedName

\* C9: SG_SCSI_RESET through scsi_ioctl on a host whose driver name starts
\* with "ufshcd" returns -EINVAL and never reaches scsi_ioctl_reset, in
\* every recovery state.
C9_ResetRejected ==
    (Returned /\ obs.fn = "scsi_ioctl" /\ obs.cmd = "SG_SCSI_RESET"
              /\ HasProtectedPrefix(host.name)) =>
        /\ obs.ret = -EINVAL
        /\ obs.reset = 0

\* the reset is asked of a longer "ufshcd..." name while the host recovers
C9_Witness ==
    /\ Returned /\ obs.fn = "scsi_ioctl" /\ obs.cmd = "SG_SCSI_RESET"
    /\ Len(host.name) > Len(ProtectedName)
    /\ HasProtectedPrefix(host.name)
    /\ eh.in_recovery

\* C10: in a security-protocol dispatch of scsi_ioctl that completes, the
\* transfer length in bytes 6..9 of the command block equals the buffer
\* length validated and passed to scsi_execute_req, and the number of
\* bytes copied, whatever another thread stores to the struct meanwhile.
C10_SingleFetch ==
    (Returned /\ obs.fn = "scsi_ioctl" /\ SecuProtCall /\ obs.cause = "none") =>
        /\ obs.exec = 1
        /\ CdbTransferLength(obs.cdb) = obs.execLen
        /\ obs.execLen = obs.bufflen
        /\ (IsOut(obs.cmd) => obs.copied_in = obs.execLen)
        /\ (IsIn(obs.cmd) => obs.copied_out = obs.execLen)

====
